---- MODULE Spec2Model ----
(***************************************************************************)
(* Model of backend/mcp_manager.py: the MCP tool executor                  *)
(* (execute_mcp_tool), the result normalizer (_process_mcp_result), the    *)
(* LangChain adapter (MCPToolWrapper) and the server registry              *)
(* (MCPServerManager).                                                     *)
(*                                                                         *)
(* Python values are tagged records: [t |-> "none"], [t |-> "str", s],     *)
(* [t |-> "int", n], [t |-> "dict", d] (a sequence of <<key, value>>       *)
(* pairs in insertion order), [t |-> "list", items], [t |-> "obj",         *)
(* content] (an object with a content attribute), [t |-> "textobj", text]  *)
(* (an object with a text attribute), [t |-> "exc", kind, msg] (a raised   *)
(* exception).  User-facing message texts are Korean in the source and are *)
(* rendered in English here; what is interpolated into them is kept.       *)
(***************************************************************************)
EXTENDS Integers, Sequences, FiniteSets, TLC

VARIABLES
    servers,          \* MCPServerManager.servers: entries in insertion order
    initialized,      \* MCPServerManager._initialized
    grafana_config,   \* truthiness of MCPServerManager.grafana_config
    cloudwatch_config,\* truthiness of MCPServerManager.cloudwatch_config
    init_pc,          \* position of the initialize_servers() coroutine
    all_tools,        \* the list returned by the latest get_all_tools() call
    listed,           \* whether get_all_tools() returned since the registry last changed
    tasks,            \* the invocations of execute_mcp_tool / MCPToolWrapper._arun
    open_transports,  \* the sessions whose stdio transport (child process, pipes) is open
    detached,         \* the MCPServerInfo objects the latest shutdown() dropped from the registry
    server_status,    \* the dict returned by the latest get_server_status() call
    last_op,          \* the latest manager operation, and whether it repeats the one before
    init_run,         \* the latest initialize_servers() run: how each provider's startup went
    clock,            \* the system's wall clock as time.time() reads it, in seconds
    properties        \* what the latest read of is_initialized and connected_server_count gave

mgrVars == <<servers, initialized, grafana_config, cloudwatch_config, init_pc,
             open_transports, detached, server_status, last_op, init_run, clock,
             properties>>
vars == <<servers, initialized, grafana_config, cloudwatch_config, init_pc,
          all_tools, listed, tasks, open_transports, detached, server_status, last_op, init_run,
          clock, properties>>

-----------------------------------------------------------------------------
(* Bounds of the model *)

MaxTools == 2    \* longest operation list a provider exposes
MaxClock == 2    \* latest reading of the wall clock

(* timeout_seconds: float = 30.0 *)
DefaultTimeout == 30

(* the caller tasks that may run concurrently on the event loop *)
Tasks == {1, 2}

-----------------------------------------------------------------------------
(* Python values *)

None == [t |-> "none"]
PyStr(s) == [t |-> "str", s |-> s]
PyInt(n) == [t |-> "int", n |-> n]
PyDict(d) == [t |-> "dict", d |-> d]
PyList(items) == [t |-> "list", items |-> items]
ContentObj(c) == [t |-> "obj", content |-> c]
TextObj(x) == [t |-> "textobj", text |-> x]
Raise(kind, msg) == [t |-> "exc", kind |-> kind, msg |-> msg]

IsStr(v) == v.t = "str"
IsRaise(v) == "t" \in DOMAIN v /\ v.t = "exc"

(* key in d, d[key] for a dict value *)
HasKey(v, key) == v.t = "dict" /\ \E i \in 1 .. Len(v.d) : v.d[i][1] = key
GetKey(v, key) == v.d[CHOOSE i \in 1 .. Len(v.d) : v.d[i][1] = key][2]

(* hasattr(v, 'text'), hasattr(v, 'content') *)
HasText(v) == v.t = "textobj"
HasContent(v) == v.t = "obj"

RECURSIVE JoinStrs(_, _)
JoinStrs(sep, parts) ==
    IF Len(parts) = 0 THEN ""
    ELSE IF Len(parts) = 1 THEN parts[1]
    ELSE parts[1] \o sep \o JoinStrs(sep, Tail(parts))

(* repr() of a value, as str() shows it inside a container *)
RECURSIVE PyRepr(_)
PyRepr(v) ==
    CASE v.t = "none" -> "None"
      [] v.t = "str" -> "'" \o v.s \o "'"
      [] v.t = "int" -> ToString(v.n)
      [] v.t = "dict" ->
            "{" \o JoinStrs(", ", [i \in 1 .. Len(v.d) |->
                    "'" \o v.d[i][1] \o "': " \o PyRepr(v.d[i][2])]) \o "}"
      [] v.t = "list" ->
            "[" \o JoinStrs(", ", [i \in 1 .. Len(v.items) |-> PyRepr(v.items[i])]) \o "]"
      [] v.t = "obj" -> "<object content>"
      [] v.t = "textobj" -> "<object text>"
      [] v.t = "exc" -> v.kind \o "('" \o v.msg \o "')"

(* str(v) *)
PyStrOf(v) ==
    CASE v.t = "str" -> v.s
      [] v.t = "exc" -> v.msg
      [] OTHER -> PyRepr(v)

(* bool(v) *)
Truthy(v) ==
    CASE v.t = "none" -> FALSE
      [] v.t = "str" -> v.s # ""
      [] v.t = "int" -> v.n # 0
      [] v.t = "dict" -> Len(v.d) > 0
      [] v.t = "list" -> Len(v.items) > 0
      [] OTHER -> TRUE

(* len(v) and v[:500] are both defined for a str and a list only: len() of None or
   an int raises TypeError, and so does slicing a dict *)
HasLenAndSlice(v) == v.t \in {"str", "list"}

(* "\n".join(parts): TypeError when a part is not a str *)
PyJoin(parts) ==
    IF \A i \in 1 .. Len(parts) : IsStr(parts[i])
    THEN PyStr(JoinStrs("\n", [i \in 1 .. Len(parts) |-> parts[i].s]))
    ELSE Raise("TypeError", "sequence item: expected str instance")

-----------------------------------------------------------------------------
(* _process_mcp_result *)

(* the text taken from one element of a content list *)
BlockText(content_block) ==
    IF HasText(content_block) THEN content_block.text
    ELSE IF IsStr(content_block) THEN content_block
    ELSE IF HasKey(content_block, "text") THEN GetKey(content_block, "text")
    ELSE PyStr(PyStrOf(content_block))

ProcessMcpResult(result) ==
    IF result = None THEN PyStr("")
    ELSE IF HasContent(result) THEN
        LET content == result.content IN
        IF content.t = "list"
        THEN PyJoin([i \in 1 .. Len(content.items) |-> BlockText(content.items[i])])
        ELSE IF HasText(content) THEN content.text
        ELSE IF IsStr(content) THEN content
        ELSE IF HasKey(content, "text") THEN GetKey(content, "text")
        ELSE PyStr(PyStrOf(content))
    ELSE IF IsStr(result) THEN result
    ELSE IF HasKey(result, "text") THEN GetKey(result, "text")
    ELSE IF HasKey(result, "result") THEN PyStr(PyStrOf(GetKey(result, "result")))
    ELSE IF HasKey(result, "data") THEN PyStr(PyStrOf(GetKey(result, "data")))
    ELSE PyStr(PyStrOf(result))

-----------------------------------------------------------------------------
(* MCPToolResult and the outcome classification of execute_mcp_tool *)

NoSession == "None"

SUCCESS == "success"
ERROR == "error"
TIMEOUT == "timeout"
CONNECTION_ERROR == "connection_error"
VALIDATION_ERROR == "validation_error"
MCPToolResultStatus == {SUCCESS, ERROR, TIMEOUT, CONNECTION_ERROR, VALIDATION_ERROR}

(* an invocation: the parameters of one execute_mcp_tool call *)
Invocation(session, tool_name, server_name, arguments, timeout_seconds) ==
    [session |-> session, tool_name |-> tool_name, server_name |-> server_name,
     arguments |-> arguments, timeout_seconds |-> timeout_seconds]

MCPToolResult(inv, status, result, error_message) ==
    [tool_name |-> inv.tool_name, server_name |-> inv.server_name, status |-> status,
     result |-> result, error_message |-> error_message, execution_time_ms |-> 0,
     arguments |-> inv.arguments]

(* MCPToolError._format_message with no original_error: str(e) of an MCPToolError *)
FormatMessage(tool_name, server_name, message) ==
    "[" \o server_name \o "] tool '" \o tool_name \o "' error: " \o message

(* _format_error_details *)
FormatErrorDetails(error) ==
    CASE error.kind = "ConnectionError" -> "Failed to connect to the server. Check the network."
      [] error.kind = "TimeoutError" -> "The request timed out. Try again later."
      [] error.kind = "AuthenticationError" -> "Authentication failed. Check the credentials."
      [] error.kind = "PermissionError" -> "Permission denied. Check the access rights."
      [] error.kind = "ValueError" -> "Invalid value: " \o error.msg
      [] error.kind = "TypeError" -> "Invalid type: " \o error.msg
      [] OTHER -> error.kind \o ": " \o error.msg

(* the return statements of execute_mcp_tool *)
SuccessResult(inv, result_text) == MCPToolResult(inv, SUCCESS, result_text, None)

TimeoutResult(inv) ==
    MCPToolResult(inv, TIMEOUT, None,
        PyStr("tool execution timed out (" \o ToString(inv.timeout_seconds) \o "s)"))

ConnectionErrorResult(inv, e) == MCPToolResult(inv, CONNECTION_ERROR, None, PyStr(e.msg))

(* argument errors classified by the executor itself *)
ErrorResultValidating(inv, e) ==
    MCPToolResult(inv, IF e.kind \in {"ValueError", "TypeError"} THEN VALIDATION_ERROR ELSE ERROR,
                  None, PyStr(FormatErrorDetails(e)))

ErrorResult(inv, e) == MCPToolResult(inv, ERROR, None, PyStr(FormatErrorDetails(e)))

(* the session check left out: the call is attempted on any session *)
SessionIsNoneUnchecked(session) == FALSE

(* if session is None: raise MCPToolConnectionError(...) *)
SessionIsNone(session) == session = NoSession

SessionNoneError(inv) ==
    Raise("MCPToolConnectionError",
          FormatMessage(inv.tool_name, inv.server_name, "MCP session is None. Check the server connection."))

(* only the library's own exception classes caught: anything else propagates *)
ClassifyExceptionNarrow(inv, e) ==
    CASE e.kind = "MCPToolTimeoutError" -> TimeoutResult(inv)
      [] e.kind = "MCPToolConnectionError" -> ConnectionErrorResult(inv, e)
      [] OTHER -> e

(* the except clauses of the outer try of execute_mcp_tool *)
ClassifyException(inv, e) ==
    CASE e.kind = "MCPToolTimeoutError" -> TimeoutResult(inv)
      [] e.kind = "MCPToolConnectionError" -> ConnectionErrorResult(inv, e)
      [] OTHER -> ErrorResult(inv, e)

(* what `await asyncio.wait_for(call, timeout)` gives back when its wait ends:
   the call's own result or exception if it has one, and asyncio.TimeoutError
   otherwise (the call was cancelled on expiry of the timeout) *)
WaitFor(call) ==
    IF call.state \in {"returned", "raised"} THEN call.value
    ELSE Raise("TimeoutError", "")

(* result_text = _process_mcp_result(result), reached when the await returned *)
ResultText(awaited) == IF IsRaise(awaited) THEN None ELSE ProcessMcpResult(awaited)

(* execute_mcp_tool from the return of the await to its return statement *)
ExecuteOutcome(inv, awaited) ==
    IF IsRaise(awaited)
    THEN IF awaited.kind = "TimeoutError"
         THEN ClassifyException(inv, Raise("MCPToolTimeoutError", ""))
         ELSE ClassifyException(inv, awaited)
    ELSE LET result_text == ProcessMcpResult(awaited) IN
         IF IsRaise(result_text) THEN ClassifyException(inv, result_text)
         ELSE IF ~HasLenAndSlice(result_text)
              THEN ClassifyException(inv, Raise("TypeError", "object has no len() or is not sliceable"))
              ELSE SuccessResult(inv, result_text)

-----------------------------------------------------------------------------
(* _sanitize_arguments_for_logging *)

(* sensitive_keys *)
SensitiveKeys == {"api_key", "apikey", "password", "secret", "token", "credential"}

(* sanitized[key] = "***REDACTED***" *)
Redacted == "***REDACTED***"

(* len(value) > 200 *)
LongValueLimit == 200

(* value[:100] *)
KeptPrefix == 100

(* str.lower() of one character *)
LowerChar(c) ==
    CASE c = "A" -> "a" [] c = "B" -> "b" [] c = "C" -> "c" [] c = "D" -> "d"
      [] c = "E" -> "e" [] c = "F" -> "f" [] c = "G" -> "g" [] c = "H" -> "h"
      [] c = "I" -> "i" [] c = "J" -> "j" [] c = "K" -> "k" [] c = "L" -> "l"
      [] c = "M" -> "m" [] c = "N" -> "n" [] c = "O" -> "o" [] c = "P" -> "p"
      [] c = "Q" -> "q" [] c = "R" -> "r" [] c = "S" -> "s" [] c = "T" -> "t"
      [] c = "U" -> "u" [] c = "V" -> "v" [] c = "W" -> "w" [] c = "X" -> "x"
      [] c = "Y" -> "y" [] c = "Z" -> "z"
      [] OTHER -> c

(* key.lower() *)
RECURSIVE Lower(_)
Lower(key) ==
    IF key = "" THEN ""
    ELSE LowerChar(SubSeq(key, 1, 1)) \o Lower(SubSeq(key, 2, Len(key)))

(* `sub in s` for strings *)
Contains(s, sub) ==
    \E i \in 1 .. (Len(s) - Len(sub) + 1) : SubSeq(s, i, i + Len(sub) - 1) = sub

(* a test that matches the listed patterns against the whole key only *)
IsSensitiveKeyExact(key) == Lower(key) \in SensitiveKeys

(* any(sensitive in key_lower for sensitive in sensitive_keys) *)
IsSensitiveKey(key) ==
    \E sensitive \in SensitiveKeys : Contains(Lower(key), sensitive)

(* a value cut as soon as it reaches the length limit *)
SanitizeValueAtLimit(key, value) ==
    IF IsSensitiveKey(key) THEN PyStr(Redacted)
    ELSE IF IsStr(value) /\ Len(value.s) >= LongValueLimit
         THEN PyStr(SubSeq(value.s, 1, KeptPrefix) \o "...(" \o ToString(Len(value.s))
                    \o " chars)")
         ELSE value

(* the entry of `sanitized` written for one (key, value) of the arguments *)
SanitizeValue(key, value) ==
    IF IsSensitiveKey(key) THEN PyStr(Redacted)
    ELSE IF IsStr(value) /\ Len(value.s) > LongValueLimit
         THEN PyStr(SubSeq(value.s, 1, KeptPrefix) \o "...(" \o ToString(Len(value.s))
                    \o " chars)")
         ELSE value

(* the dict _sanitize_arguments_for_logging returns *)
SanitizeArgumentsForLogging(arguments) ==
    PyDict([i \in 1 .. Len(arguments.d) |->
                <<arguments.d[i][1], SanitizeValue(arguments.d[i][1], arguments.d[i][2])>>])

(* a sanitizer that rewrites the entries of the dict it is given *)
SanitizeCallInPlace(arguments) ==
    [returned |-> SanitizeArgumentsForLogging(arguments),
     arguments |-> SanitizeArgumentsForLogging(arguments)]

(* the call _sanitize_arguments_for_logging(arguments): what it returns (a new
   dict, `sanitized = {}`), and the caller's dict after the call *)
SanitizeCall(arguments) ==
    [returned |-> SanitizeArgumentsForLogging(arguments),
     arguments |-> arguments]

-----------------------------------------------------------------------------
(* One invocation (a task of the event loop) of execute_mcp_tool, directly or
   through MCPToolWrapper._arun *)

NoCall == [state |-> "none", session |-> NoSession, name |-> "", arguments |-> None, value |-> None]

IdleTask ==
    [pc |-> "idle",        \* idle, waiting (suspended in the await), done
     via |-> "none",       \* direct: execute_mcp_tool; adapter: MCPToolWrapper._arun
     adapter |-> None,     \* the MCPToolWrapper invoked
     inv |-> None,         \* the parameters of execute_mcp_tool
     given |-> None,       \* the argument map as the caller passed it
     start_time |-> 0,     \* start_time = time.time()
     logged |-> None,      \* the arguments as written to the debug log
     result_text |-> None, \* what _process_mcp_result gave: a value, or a raised exception
     call |-> NoCall,      \* the session.call_tool(...) issued by this invocation
     ncalls |-> 0,         \* how many session.call_tool(...) it issued
     timer |-> "unset",    \* the timeout of asyncio.wait_for: unset, armed, fired
     outcome |-> None,     \* the MCPToolResult returned by execute_mcp_tool
     result |-> None]      \* what _arun gave its caller: a value, or a raised exception

(* MCPToolWrapper._create_error_response *)
CreateErrorResponse(adapter, result) ==
    LET msg == PyStrOf(result.error_message) IN
    CASE result.status = TIMEOUT ->
            "Tool '" \o adapter.name \o "' timed out. Server(" \o adapter.server_name
                \o ") is not responding."
      [] result.status = CONNECTION_ERROR ->
            "Cannot connect to server '" \o adapter.server_name \o "'. Check the server state."
      [] result.status = VALIDATION_ERROR ->
            "Invalid arguments for tool '" \o adapter.name \o "'. Error: " \o msg
      [] result.status = ERROR ->
            "Error while running tool '" \o adapter.name \o "': " \o msg
      [] OTHER -> "Unknown error: " \o msg

(* every failure, a connection error included, handed back as message text *)
ArunResultNeverRaises(adapter, result) ==
    IF result.status = SUCCESS
    THEN (IF Truthy(result.result) THEN result.result ELSE PyStr(""))
    ELSE PyStr(CreateErrorResponse(adapter, result))

(* MCPToolWrapper._arun after execute_mcp_tool returned `result`: the value it
   returns, or the exception it raises *)
ArunResult(adapter, result) ==
    IF result.status = SUCCESS
    THEN (IF Truthy(result.result) THEN result.result ELSE PyStr(""))
    ELSE IF result.status = CONNECTION_ERROR
         THEN Raise("MCPToolConnectionError",
                    FormatMessage(adapter.name, adapter.server_name,
                        IF Truthy(result.error_message) THEN result.error_message.s
                        ELSE "connection error"))
         ELSE PyStr(CreateErrorResponse(adapter, result))

(* the invocation that _arun hands to execute_mcp_tool *)
ArunInvocation(adapter, kwargs) ==
    Invocation(adapter.session, adapter.name, adapter.server_name, kwargs,
               adapter.timeout_seconds)

(* execution_time_ms = (time.time() - start_time) * 1000 *)
ExecutionTimeMs(start_time, now) == (now - start_time) * 1000

(* execute_mcp_tool returns `outcome`, stamped with the execution time; a
   suspended _arun continues with it *)
Finish(task, outcome) ==
    LET timed == IF IsRaise(outcome) THEN outcome
                 ELSE [outcome EXCEPT
                         !.execution_time_ms = ExecutionTimeMs(task.start_time, clock)]
    IN  [task EXCEPT !.pc = "done", !.outcome = timed,
                     !.result = IF task.via = "adapter" THEN ArunResult(task.adapter, timed)
                                ELSE None]

(* session.call_tool(tool_name, arguments) *)
CallTool(inv) ==
    [state |-> "running", session |-> inv.session, name |-> inv.tool_name,
     arguments |-> inv.arguments, value |-> None]

(* execute_mcp_tool from entry to the await (or to its return, for no session):
   the arguments are sanitized for the debug log line, then the dict the caller
   gave is what goes on to call_tool and into the outcome *)
BeginExecute(task, given) ==
    LET sanitize == SanitizeCall(given.arguments)
        inv == [given EXCEPT !.arguments = sanitize.arguments]
        entered == [task EXCEPT !.start_time = clock, !.given = given.arguments, !.inv = inv,
                                !.logged = sanitize.returned]
    IN  IF SessionIsNone(inv.session)
        THEN Finish(entered, ClassifyException(inv, SessionNoneError(inv)))
        ELSE [entered EXCEPT !.pc = "waiting", !.call = CallTool(inv),
                             !.ncalls = @ + 1, !.timer = "armed"]

(* a wait that ends at expiry, without waiting for the cancelled call to settle *)
WaitOverAtExpiry(task) ==
    task.call.state \in {"returned", "raised", "cancelled"} \/ task.timer = "fired"

(* asyncio.wait_for ends its wait once the call has settled: returned, raised,
   or cancelled after the timeout fired *)
WaitOver(task) == task.call.state \in {"returned", "raised", "cancelled"}

(* a resumption that issues the call once more when the first one raised *)
ResumeRetrying(task) ==
    IF WaitOver(task) /\ task.call.state = "raised" /\ task.ncalls = 1
    THEN [task EXCEPT !.call = CallTool(task.inv), !.ncalls = @ + 1, !.timer = "armed"]
    ELSE IF WaitOver(task)
         THEN Finish([task EXCEPT !.result_text = ResultText(WaitFor(task.call))],
                     ExecuteOutcome(task.inv, WaitFor(task.call)))
    ELSE task

(* execute_mcp_tool resumes from the await when wait_for ends its wait *)
Resume(task) ==
    IF WaitOver(task)
    THEN Finish([task EXCEPT !.result_text = ResultText(WaitFor(task.call))],
                ExecuteOutcome(task.inv, WaitFor(task.call)))
    ELSE task

(* a direct call of execute_mcp_tool *)
Execute(t, inv) ==
    /\ tasks[t].pc = "idle"
    /\ tasks' = [tasks EXCEPT ![t] = BeginExecute([IdleTask EXCEPT !.via = "direct"], inv)]
    /\ UNCHANGED <<mgrVars, all_tools, listed>>

(* the provider answers the call with `raw` *)
CallReturns(t, raw) ==
    /\ tasks[t].pc = "waiting"
    /\ tasks[t].call.state = "running"
    /\ tasks' = [tasks EXCEPT ![t] =
            Resume([tasks[t] EXCEPT !.call.state = "returned", !.call.value = raw])]
    /\ UNCHANGED <<mgrVars, all_tools, listed>>

(* the provider call raises `exc` *)
CallRaises(t, exc) ==
    /\ tasks[t].pc = "waiting"
    /\ tasks[t].call.state = "running"
    /\ tasks' = [tasks EXCEPT ![t] =
            Resume([tasks[t] EXCEPT !.call.state = "raised", !.call.value = exc])]
    /\ UNCHANGED <<mgrVars, all_tools, listed>>

(* one expiry cancelling every call that is running, on whichever session *)
TimeoutCancelsEvery(t) ==
    /\ tasks[t].pc = "waiting"
    /\ tasks[t].call.state = "running"
    /\ tasks[t].timer = "armed"
    /\ tasks' = [u \in Tasks |->
            IF tasks[u].pc = "waiting" /\ tasks[u].call.state = "running"
            THEN Resume([tasks[u] EXCEPT !.timer = "fired", !.call.state = "cancelled"])
            ELSE tasks[u]]
    /\ UNCHANGED <<mgrVars, all_tools, listed>>

(* the timeout fires: wait_for cancels the call, and the call ends cancelled *)
TimeoutCancels(t) ==
    /\ tasks[t].pc = "waiting"
    /\ tasks[t].call.state = "running"
    /\ tasks[t].timer = "armed"
    /\ tasks' = [tasks EXCEPT ![t] =
            Resume([tasks[t] EXCEPT !.timer = "fired", !.call.state = "cancelled"])]
    /\ UNCHANGED <<mgrVars, all_tools, listed>>

(* the timeout fires, and the call swallows the cancellation and keeps running *)
TimeoutIgnored(t) ==
    /\ tasks[t].pc = "waiting"
    /\ tasks[t].call.state = "running"
    /\ tasks[t].timer = "armed"
    /\ tasks' = [tasks EXCEPT ![t] = Resume([tasks[t] EXCEPT !.timer = "fired"])]
    /\ UNCHANGED <<mgrVars, all_tools, listed>>

(* time passes: the wall clock reads one second more *)
ClockTicks ==
    /\ clock < MaxClock
    /\ clock' = clock + 1
    /\ UNCHANGED <<properties, servers, initialized, grafana_config, cloudwatch_config, init_pc, all_tools,
                   listed, tasks, open_transports, detached, server_status, last_op, init_run>>

(* the system clock is set back (a time synchronisation step, an operator):
   time.time() then reads less than it did before *)
ClockSetBack ==
    /\ clock > 0
    /\ clock' = clock - 1
    /\ UNCHANGED <<properties, servers, initialized, grafana_config, cloudwatch_config, init_pc, all_tools,
                   listed, tasks, open_transports, detached, server_status, last_op, init_run>>

(* the caller takes the result; the task slot is free again *)
Collect(t) ==
    /\ tasks[t].pc = "done"
    /\ tasks' = [tasks EXCEPT ![t] = IdleTask]
    /\ UNCHANGED <<mgrVars, all_tools, listed>>

-----------------------------------------------------------------------------
(* MCPServerManager: the registry and get_all_tools *)

(* how one provider's startup went in an initialize_servers() run: not yet
   attempted, skipped for want of a config, failed in spawn, handshake or
   discovery, or started with the operations list_tools() gave *)
NotAttempted == [attempt |-> "pending", tools |-> <<>>]
StartupRun(config, startup) ==
    IF ~config THEN [attempt |-> "skipped", tools |-> <<>>]
    ELSE IF ~startup.ok THEN [attempt |-> "failed", tools |-> <<>>]
    ELSE [attempt |-> "started", tools |-> startup.tools]

(* a run as initialize_servers() is entered; whole: nothing but the run has
   changed the registry since; clean: whole, and the registry was empty then *)
NoRun == [clean |-> TRUE, whole |-> TRUE, grafana |-> NotAttempted, cloudwatch |-> NotAttempted]
Disturbed(r) == [r EXCEPT !.clean = FALSE, !.whole = FALSE]

MCPServerInfo(name, session, tools, is_connected) ==
    [name |-> name, session |-> session, tools |-> tools, is_connected |-> is_connected]

(* an operation as discovered by list_tools(): an object with name and description *)
McpTool(name, description) == [name |-> name, description |-> description]

(* an assignment that leaves the new entry alone in the registry *)
SetServerAlone(srv, info) == <<info>>

(* self.servers[key] = info: a present key keeps its place, a new key goes last *)
SetServer(srv, info) ==
    IF \E i \in 1 .. Len(srv) : srv[i].name = info.name
    THEN [i \in 1 .. Len(srv) |-> IF srv[i].name = info.name THEN info ELSE srv[i]]
    ELSE Append(srv, info)

Registered(srv, name) == \E i \in 1 .. Len(srv) : srv[i].name = name
ServerInfo(srv, name) == srv[CHOOSE i \in 1 .. Len(srv) : srv[i].name = name]

(* str.upper() of the provider names *)
Upper(server_name) ==
    CASE server_name = "grafana" -> "GRAFANA"
      [] server_name = "cloudwatch" -> "CLOUDWATCH"
      [] OTHER -> server_name

(* every provider listed, whatever its connectivity flag *)
IsOfferedAlways(server_info) == TRUE

(* `if not server_info.is_connected: continue` *)
IsOffered(server_info) == server_info.is_connected

(* the adapter named by the raw operation name alone *)
QualifiedNameUnprefixed(server_name, tool_name) == tool_name

(* name=f"{server_name}_{tool_name}" *)
QualifiedName(server_name, tool_name) == server_name \o "_" \o tool_name

(* the description handed on as discovered, without the provider tag *)
TaggedDescriptionUntagged(server_name, tool_description) == tool_description

(* description=f"[{server_name.upper()}] {tool_description}" *)
TaggedDescription(server_name, tool_description) ==
    "[" \o Upper(server_name) \o "] " \o tool_description

(* MCPToolWrapper(...) as get_all_tools builds it *)
MCPToolWrapper(server_name, server_info, mcp_tool, timeout_seconds) ==
    [name |-> QualifiedName(server_name, mcp_tool.name),
     description |-> TaggedDescription(server_name, mcp_tool.description),
     mcp_tool |-> [name |-> mcp_tool.name],
     session |-> server_info.session,
     server_name |-> server_name,
     timeout_seconds |-> timeout_seconds]

(* an operation object whose wrapping raises: reading one of its attributes
   raises an exception other than AttributeError *)
WrapRaises(mcp_tool) == "raises" \in DOMAIN mcp_tool

(* a failure that ends the loop over the provider's operations *)
RestAfterFailureDropped(rest) == <<>>

(* `except Exception as e: ... continue`: the loop goes on with the operations
   after the one that failed *)
RestAfterFailure(rest) == rest

(* the inner loop of get_all_tools over one provider's operations: an operation
   is wrapped only `if server_info.session`; one whose wrapping raises is skipped *)
RECURSIVE WrapTools(_, _, _)
WrapTools(server_info, tools, timeout_seconds) ==
    IF tools = <<>> THEN <<>>
    ELSE IF WrapRaises(Head(tools))
    THEN WrapTools(server_info, RestAfterFailure(Tail(tools)), timeout_seconds)
    ELSE (IF server_info.session # NoSession
          THEN <<MCPToolWrapper(server_info.name, server_info, Head(tools), timeout_seconds)>>
          ELSE <<>>)
         \o WrapTools(server_info, Tail(tools), timeout_seconds)

(* get_all_tools(timeout_seconds) over the registry srv *)
RECURSIVE GetAllToolsList(_, _)
GetAllToolsList(srv, timeout_seconds) ==
    IF srv = <<>> THEN <<>>
    ELSE (IF IsOffered(Head(srv))
          THEN WrapTools(Head(srv), Head(srv).tools, timeout_seconds)
          ELSE <<>>)
         \o GetAllToolsList(Tail(srv), timeout_seconds)

(* the record of a manager operation that has just run *)
Op(name) == [op |-> name, again |-> last_op.op = name]

(* no value of is_initialized and connected_server_count has been read *)
NoProperties == [returned |-> FALSE, is_initialized |-> FALSE, connected_server_count |-> 0]

(* no get_server_status() result is held *)
NoStatus == [returned |-> FALSE, value |-> <<>>]

GetAllTools(timeout_seconds) ==
    /\ all_tools' = GetAllToolsList(servers, timeout_seconds)
    /\ listed' = TRUE
    /\ last_op' = Op("get_all_tools")
    /\ UNCHANGED <<properties, clock, init_run, servers, initialized, grafana_config, cloudwatch_config, init_pc,
                   open_transports, detached, server_status, tasks>>

(* an entry of get_server_status() that leaves out the operations of a
   disconnected provider *)
StatusEntryConnectedOnly(server_info) ==
    [name |-> server_info.name,
     is_connected |-> server_info.is_connected,
     tool_count |-> IF server_info.is_connected THEN Len(server_info.tools) ELSE 0,
     tools |-> IF server_info.is_connected
               THEN [i \in 1 .. Len(server_info.tools) |-> server_info.tools[i].name]
               ELSE <<>>]

(* status[server_name] = {"is_connected": ..., "tool_count": ..., "tools": [...]} *)
StatusEntry(server_info) ==
    [name |-> server_info.name,
     is_connected |-> server_info.is_connected,
     tool_count |-> Len(server_info.tools),
     tools |-> [i \in 1 .. Len(server_info.tools) |-> server_info.tools[i].name]]

(* the dict get_server_status() builds: one entry per key, in insertion order *)
ServerStatus(srv) == [i \in 1 .. Len(srv) |-> StatusEntry(srv[i])]

(* a status query that also marks every entry it reports as disconnected *)
GetServerStatusMarking ==
    /\ server_status' = [returned |-> TRUE, value |-> ServerStatus(servers)]
    /\ servers' = [i \in 1 .. Len(servers) |-> [servers[i] EXCEPT !.is_connected = FALSE]]
    /\ last_op' = Op("get_server_status")
    /\ UNCHANGED <<properties, clock, init_run, initialized, grafana_config, cloudwatch_config, init_pc,
                   all_tools, listed, tasks, open_transports, detached>>

(* get_server_status() *)
GetServerStatus ==
    /\ server_status' = [returned |-> TRUE, value |-> ServerStatus(servers)]
    /\ last_op' = Op("get_server_status")
    /\ UNCHANGED <<properties, clock, init_run, servers, initialized, grafana_config, cloudwatch_config, init_pc,
                   all_tools, listed, tasks, open_transports, detached>>

(* manager.servers[name] = MCPServerInfo(...): the registry filled in directly, the
   way the unit tests set up a manager *)
RegisterServer(info) ==
    /\ servers' = SetServer(servers, info)
    /\ all_tools' = <<>>
    /\ listed' = FALSE
    /\ server_status' = NoStatus
    /\ properties' = NoProperties
    /\ detached' = <<>>
    /\ last_op' = Op("register")
    /\ init_run' = Disturbed(init_run)
    /\ UNCHANGED <<clock, initialized, grafana_config, cloudwatch_config, init_pc, tasks,
                   open_transports>>

(* manager._initialized = True: the flag set directly, the way the unit tests
   prepare an initialized manager *)
MarkInitialized ==
    /\ ~initialized
    /\ initialized' = TRUE
    /\ last_op' = Op("mark_initialized")
    /\ UNCHANGED <<properties, clock, init_run, servers, grafana_config, cloudwatch_config, init_pc, all_tools, listed,
                   tasks, open_transports, detached, server_status>>

(* a startup whose failure leaves _start_grafana_mcp as an exception *)
StartMcpUncaught(name, config, session, startup) ==
    IF ~config THEN None
    ELSE IF ~startup.ok THEN Raise("Exception", "startup failed")
    ELSE MCPServerInfo(name, session, startup.tools, TRUE)

(* _start_grafana_mcp / _start_cloudwatch_mcp: None without a config or when
   spawn, handshake or discovery raises (except FileNotFoundError, except
   Exception), else the MCPServerInfo of the session.
   startup.ok: nothing raised; startup.tools: what list_tools() returned. *)
StartMcp(name, config, session, startup) ==
    IF ~config THEN None
    ELSE IF ~startup.ok THEN None
    ELSE MCPServerInfo(name, session, startup.tools, TRUE)

(* the flag set only when some provider was registered *)
InitializedIfAnyServer(srv) == Len(srv) > 0

(* self._initialized = True, reached whatever len(self.servers) is *)
InitializedAfter(srv) == TRUE

(* initialize_servers() is entered *)
InitializeServers ==
    /\ init_pc = "idle"
    /\ init_pc' = "grafana"
    /\ last_op' = Op("initialize_servers")
    /\ init_run' = [NoRun EXCEPT !.clean = servers = <<>>]
    /\ UNCHANGED <<properties, clock, servers, initialized, grafana_config, cloudwatch_config,
                   all_tools, listed, tasks, open_transports, detached, server_status>>

(* a startup that may begin while the Grafana session is still being set up *)
SpawnOverlapping(at, config, session, during) ==
    /\ init_pc \in {at, "grafana_session"}
    /\ config
    /\ open_transports' = open_transports \cup {session}
    /\ init_pc' = during
    /\ UNCHANGED <<properties, clock, servers, initialized, grafana_config, cloudwatch_config,
                   all_tools, listed, tasks, detached, server_status, last_op, init_run>>

(* `async with stdio_client(...)`, `async with ClientSession(...)` entered: the
   child process runs and the session's transport is open *)
Spawn(at, config, session, during) ==
    /\ init_pc = at
    /\ config
    /\ open_transports' = open_transports \cup {session}
    /\ init_pc' = during
    /\ UNCHANGED <<properties, clock, servers, initialized, grafana_config, cloudwatch_config,
                   all_tools, listed, tasks, detached, server_status, last_op, init_run>>

SpawnGrafana == Spawn("grafana", grafana_config, "session_grafana", "grafana_session")
SpawnCloudwatch ==
    Spawn("cloudwatch", cloudwatch_config, "session_cloudwatch", "cloudwatch_session")

(* initialize_servers(): the Grafana block from the point where
   _start_grafana_mcp leaves its try: not configured, spawn raised (no session
   was entered), or it leaves the two `async with` blocks by an exception or by
   `return server_info`; leaving them releases the transport *)
StartGrafana(startup) ==
    /\ init_pc \in {"grafana", "grafana_session"}
    /\ init_pc = "grafana" => ~startup.ok
    /\ open_transports' = open_transports \ {"session_grafana"}
    /\ LET grafana_server == StartMcp("grafana", grafana_config, "session_grafana", startup) IN
        IF IsRaise(grafana_server)
        THEN /\ init_pc' = "idle"         \* except Exception: raise
             /\ servers' = servers
        ELSE /\ init_pc' = "cloudwatch"
             /\ servers' = IF grafana_server # None THEN SetServer(servers, grafana_server)
                           ELSE servers
    /\ all_tools' = <<>>
    /\ listed' = FALSE
    /\ server_status' = NoStatus
    /\ properties' = NoProperties
    /\ detached' = <<>>
    /\ last_op' = Op("start_grafana")
    /\ init_run' = [init_run EXCEPT !.grafana = StartupRun(grafana_config, startup)]
    /\ UNCHANGED <<clock, initialized, grafana_config, cloudwatch_config, tasks>>

(* initialize_servers(): the CloudWatch block likewise, and self._initialized = True *)
StartCloudwatch(startup) ==
    /\ init_pc \in {"cloudwatch", "cloudwatch_session"}
    /\ init_pc = "cloudwatch" => ~startup.ok
    /\ open_transports' = open_transports \ {"session_cloudwatch"}
    /\ LET cloudwatch_server ==
             StartMcp("cloudwatch", cloudwatch_config, "session_cloudwatch", startup) IN
        IF IsRaise(cloudwatch_server)
        THEN /\ servers' = servers        \* except Exception: raise
             /\ initialized' = initialized
        ELSE /\ servers' = IF cloudwatch_server # None
                           THEN SetServer(servers, cloudwatch_server)
                           ELSE servers
             /\ initialized' = InitializedAfter(servers')
    /\ init_pc' = "idle"
    /\ all_tools' = <<>>
    /\ listed' = FALSE
    /\ server_status' = NoStatus
    /\ properties' = NoProperties
    /\ detached' = <<>>
    /\ last_op' = Op("start_cloudwatch")
    /\ init_run' = [init_run EXCEPT !.cloudwatch = StartupRun(cloudwatch_config, startup)]
    /\ UNCHANGED <<clock, grafana_config, cloudwatch_config, tasks>>

(* an entry whose flag shutdown() leaves as it found it *)
ShutdownInfoUntouched(server_info) == server_info

(* shutdown(), one entry: `if server_info.is_connected and server_info.session:
   server_info.is_connected = False` *)
ShutdownInfo(server_info) ==
    IF server_info.is_connected /\ server_info.session # NoSession
    THEN [server_info EXCEPT !.is_connected = FALSE]
    ELSE server_info

(* a shutdown that flips the initialization flag *)
ShutdownInitializedToggled(was_initialized) == ~was_initialized

(* self._initialized = False *)
ShutdownInitialized(was_initialized) == FALSE

(* shutdown(): it holds no await, so it runs in one step; the entries it drops
   live on as objects with the flags it gave them *)
Shutdown ==
    /\ detached' = [i \in 1 .. Len(servers) |-> ShutdownInfo(servers[i])]
    /\ servers' = <<>>               \* self.servers.clear()
    /\ initialized' = ShutdownInitialized(initialized)
    /\ all_tools' = all_tools        \* the adapters handed out stay with their holder
    /\ listed' = FALSE
    /\ server_status' = NoStatus
    /\ properties' = NoProperties
    /\ last_op' = Op("shutdown")
    /\ init_run' = Disturbed(init_run)
    /\ UNCHANGED <<clock, grafana_config, cloudwatch_config, init_pc, tasks, open_transports>>

(* a count that takes every registry entry for a connected server *)
CountsAsConnectedAlways(server) == TRUE

(* `if server.is_connected` *)
CountsAsConnected(server) == server.is_connected

(* the connected_server_count property *)
RECURSIVE ConnectedServerCount(_)
ConnectedServerCount(srv) ==
    IF srv = <<>> THEN 0
    ELSE (IF CountsAsConnected(Head(srv)) THEN 1 ELSE 0) + ConnectedServerCount(Tail(srv))

(* the is_initialized property *)
IsInitialized == initialized

(* the caller reads manager.is_initialized and manager.connected_server_count *)
ReadProperties ==
    /\ properties' = [returned |-> TRUE, is_initialized |-> IsInitialized,
                      connected_server_count |-> ConnectedServerCount(servers)]
    /\ last_op' = Op("read_properties")
    /\ UNCHANGED <<servers, initialized, grafana_config, cloudwatch_config, init_pc, all_tools,
                   listed, tasks, open_transports, detached, server_status, init_run, clock>>

(* MCPToolWrapper._arun on an adapter, with keyword arguments kwargs *)
Arun(t, adapter, kwargs) ==
    /\ tasks[t].pc = "idle"
    /\ tasks' = [tasks EXCEPT ![t] =
            BeginExecute([IdleTask EXCEPT !.via = "adapter", !.adapter = adapter],
                         ArunInvocation(adapter, kwargs))]
    /\ UNCHANGED <<mgrVars, all_tools, listed>>

-----------------------------------------------------------------------------
(* Inputs *)

ArgMaps ==
    { PyDict(<<>>),
      PyDict(<< <<"query", PyStr("up")>>, <<"api_key", PyStr("k-123")>> >>) }

(* a value one character over the length limit of the log, and one at the limit *)
LongValue == "xxxxxxxxxxxxxxxxxxxxxxxxxxxxxxxxxxxxxxxxxxxxxxxxxxxxxxxxxxxxxxxxxxxxxxxxxxxxxxxxxxxxxxxxxxxxxxxxxxxxxxxxxxxxxxxxxxxxxxxxxxxxxxxxxxxxxxxxxxxxxxxxxxxxxxxxxxxxxxxxxxxxxxxxxxxxxxxxxxxxxxxxxxxxxxxxxxxxxxxxx"
LimitValue == "yyyyyyyyyyyyyyyyyyyyyyyyyyyyyyyyyyyyyyyyyyyyyyyyyyyyyyyyyyyyyyyyyyyyyyyyyyyyyyyyyyyyyyyyyyyyyyyyyyyyyyyyyyyyyyyyyyyyyyyyyyyyyyyyyyyyyyyyyyyyyyyyyyyyyyyyyyyyyyyyyyyyyyyyyyyyyyyyyyyyyyyyyyyyyyyyyyyyyyyy"

(* argument maps with sensitive keys in several spellings, long values and a
   nested map *)
LoggedArgMaps ==
    { PyDict(<< <<"API_KEY", PyStr("k-123")>>, <<"limit", PyInt(10)>> >>),
      PyDict(<< <<"authToken", PyStr("t-9")>>, <<"data", PyStr(LongValue)>> >>),
      PyDict(<< <<"config", PyDict(<< <<"password", PyStr("p")>> >>)>>,
                <<"note", PyStr(LimitValue)>> >>),
      PyDict(<< <<"user_credentials", PyInt(5)>>, <<"query", PyStr("up")>>,
                <<"Secret", PyStr(LongValue)>> >>) }

(* responses of session.call_tool *)
RawResponses ==
    { None,
      PyStr("ok"),
      PyDict(<< <<"text", PyStr("42%")>> >>),
      PyDict(<< <<"text", PyInt(42)>> >>),
      PyDict(<< <<"result", PyInt(7)>>, <<"data", PyStr("d")>> >>),
      PyDict(<< <<"data", PyStr("d")>>, <<"text", PyStr("t")>> >>),
      ContentObj(PyList(<< TextObj(PyStr("a")), TextObj(PyStr("b")) >>)),
      ContentObj(PyList(<< PyStr("a"), PyDict(<< <<"text", PyInt(1)>> >>) >>)),
      ContentObj(TextObj(PyStr("single"))),
      PyStr(""),
      PyDict(<<>>),
      PyList(<<>>),
      ContentObj(PyList(<<>>)),
      PyInt(7) }

(* exceptions raised by session.call_tool *)
CallExceptions ==
    { Raise("ValueError", "boom"),
      Raise("ValueError", "bad"),
      Raise("RuntimeError", "boom"),
      Raise("ConnectionError", "refused"),
      Raise("TimeoutError", ""),
      Raise("MCPToolConnectionError", "[grafana] tool 'query' error: lost") }

ProviderNames == {"grafana", "cloudwatch"}
SessionOf(name) == "session_" \o name

(* operations a provider may list *)
McpTools == {McpTool("query", "Query metrics"), McpTool("get_logs", "Get logs")}
ToolLists == UNION {[1 .. n -> McpTools] : n \in 0 .. MaxTools}

(* what a provider startup ends with: a failure, or the discovered operations *)
Startups ==
    {[ok |-> FALSE, tools |-> <<>>]} \cup {[ok |-> TRUE, tools |-> l] : l \in ToolLists}

(* registry entries set up directly, as the unit tests do: a session that is
   connected or disconnected, or no session and disconnected (the defaults) *)
TestInfos ==
    UNION { { MCPServerInfo(n, SessionOf(n), tools, c) : tools \in ToolLists, c \in BOOLEAN }
            \cup { MCPServerInfo(n, NoSession, tools, FALSE) : tools \in ToolLists }
            : n \in ProviderNames }

(* an operation object whose description attribute raises when read *)
BrokenTool == [name |-> "broken", description |-> "", raises |-> TRUE]

(* discovered lists that may hold such an object at any place *)
FaultyToolLists == UNION {[1 .. n -> McpTools \cup {BrokenTool}] : n \in 0 .. MaxTools}

(* connected registry entries over these lists *)
FaultyInfos ==
    { MCPServerInfo(n, SessionOf(n), tools, TRUE) : n \in ProviderNames, tools \in FaultyToolLists }

(* per-call timeouts handed to get_all_tools: the default and an override *)
Timeouts == {DefaultTimeout, 5}

(* direct calls of execute_mcp_tool *)
DirectInvocations ==
    { Invocation(NoSession, "query", "grafana", PyDict(<<>>), DefaultTimeout) }
    \cup { Invocation("session_grafana", "query", "grafana", a, DefaultTimeout) :
                a \in ArgMaps \cup LoggedArgMaps }
    \cup { Invocation("session_cloudwatch", "get_logs", "cloudwatch", PyDict(<<>>), 5) }

-----------------------------------------------------------------------------
(* The executor alone: direct calls of execute_mcp_tool *)

Init ==
    /\ servers = <<>>
    /\ initialized = FALSE
    /\ grafana_config \in BOOLEAN
    /\ cloudwatch_config \in BOOLEAN
    /\ init_pc = "idle"
    /\ all_tools = <<>>
    /\ listed = FALSE
    /\ tasks = [t \in Tasks |-> IdleTask]
    /\ open_transports = {}
    /\ detached = <<>>
    /\ server_status = NoStatus
    /\ last_op = [op |-> "construct", again |-> FALSE]
    /\ init_run = Disturbed(NoRun)
    /\ clock = 0
    /\ properties = NoProperties

InitExec == Init /\ ~grafana_config /\ ~cloudwatch_config

NextExec ==
    \/ \E t \in Tasks, inv \in DirectInvocations : Execute(t, inv)
    \/ \E t \in Tasks, raw \in RawResponses : CallReturns(t, raw)
    \/ \E t \in Tasks, exc \in CallExceptions : CallRaises(t, exc)
    \/ \E t \in Tasks : TimeoutCancels(t)
    \/ \E t \in Tasks : TimeoutIgnored(t)
    \/ \E t \in Tasks : Collect(t)

SpecExec == InitExec /\ [][NextExec]_vars


-----------------------------------------------------------------------------
(* The executor under a running wall clock *)

TimedInvocations ==
    { Invocation(NoSession, "query", "grafana", PyDict(<<>>), DefaultTimeout),
      Invocation("session_grafana", "query", "grafana",
                 PyDict(<< <<"query", PyStr("up")>>, <<"api_key", PyStr("k-123")>> >>),
                 DefaultTimeout) }

TimedResponses == { None, PyStr("ok") }

TimedExceptions == { Raise("RuntimeError", ""), Raise("TimeoutError", "") }

NextTimed ==
    \/ \E t \in Tasks, inv \in TimedInvocations : Execute(t, inv)
    \/ \E t \in Tasks, raw \in TimedResponses : CallReturns(t, raw)
    \/ \E t \in Tasks, exc \in TimedExceptions : CallRaises(t, exc)
    \/ \E t \in Tasks : TimeoutCancels(t)
    \/ \E t \in Tasks : Collect(t)
    \/ ClockTicks
    \/ ClockSetBack

SpecTimed == InitExec /\ [][NextTimed]_vars

-----------------------------------------------------------------------------
(* The registry and the aggregator: a manager whose registry is filled in
   directly, queried and shut down *)

Next ==
    \/ \E info \in TestInfos : RegisterServer(info)
    \/ MarkInitialized
    \/ Shutdown
    \/ \E timeout_seconds \in Timeouts : GetAllTools(timeout_seconds)
    \/ GetServerStatus

(* a manager constructed with both provider configs *)
InitConfigured == Init /\ grafana_config /\ cloudwatch_config

Spec == InitConfigured /\ [][Next]_vars

-----------------------------------------------------------------------------
(* The aggregator over registries that hold operations whose wrapping raises *)

NextWrap ==
    \/ \E info \in FaultyInfos : RegisterServer(info)
    \/ Shutdown
    \/ \E timeout_seconds \in Timeouts : GetAllTools(timeout_seconds)

SpecWrap == InitConfigured /\ [][NextWrap]_vars

-----------------------------------------------------------------------------
(* The lifecycle of a manager as the application drives it: constructed with
   any of the configs, initialized, queried, shut down; its registry is
   filled by initialize_servers() alone *)

NextLifecycle ==
    \/ InitializeServers
    \/ SpawnGrafana
    \/ \E startup \in Startups : StartGrafana(startup)
    \/ SpawnCloudwatch
    \/ \E startup \in Startups : StartCloudwatch(startup)
    \/ Shutdown
    \/ \E timeout_seconds \in Timeouts : GetAllTools(timeout_seconds)
    \/ GetServerStatus

SpecLifecycle == Init /\ [][NextLifecycle]_vars

-----------------------------------------------------------------------------
(* The manager's two properties read between registrations, initializations and
   shutdowns *)

(* entries set up directly, connected and not *)
PropertyInfos == { MCPServerInfo(n, SessionOf(n), <<>>, c) : n \in ProviderNames, c \in BOOLEAN }

NextProperties ==
    \/ \E info \in PropertyInfos : RegisterServer(info)
    \/ InitializeServers
    \/ SpawnGrafana
    \/ \E startup \in Startups : StartGrafana(startup)
    \/ SpawnCloudwatch
    \/ \E startup \in Startups : StartCloudwatch(startup)
    \/ Shutdown
    \/ ReadProperties

SpecProperties == Init /\ [][NextProperties]_vars

-----------------------------------------------------------------------------
(* The adapters at work: tools listed by get_all_tools and invoked by the agent *)

(* an adapter built directly with no session, as the unit tests do *)
TestAdapters ==
    { [name |-> "test_tool", description |-> "test tool", mcp_tool |-> [name |-> "test"],
       session |-> NoSession, server_name |-> "grafana", timeout_seconds |-> DefaultTimeout] }

AdapterInfos ==
    { MCPServerInfo(n, SessionOf(n), <<McpTool("query", "Query metrics")>>, TRUE) :
        n \in ProviderNames }

AdapterResponses == { None, PyStr("ok") }

AdapterExceptions ==
    { Raise("ValueError", "boom"),
      Raise("ValueError", "bad"),
      Raise("MCPToolConnectionError", "[grafana] tool 'query' error: lost") }

NextAdapter ==
    \/ \E info \in AdapterInfos : RegisterServer(info)
    \/ Shutdown
    \/ \E timeout_seconds \in Timeouts : GetAllTools(timeout_seconds)
    \/ \E t \in Tasks, i \in 1 .. Len(all_tools), kwargs \in ArgMaps :
            Arun(t, all_tools[i], kwargs)
    \/ \E t \in Tasks, adapter \in TestAdapters, kwargs \in ArgMaps : Arun(t, adapter, kwargs)
    \/ \E t \in Tasks, raw \in AdapterResponses : CallReturns(t, raw)
    \/ \E t \in Tasks, exc \in AdapterExceptions : CallRaises(t, exc)
    \/ \E t \in Tasks : TimeoutCancels(t)
    \/ \E t \in Tasks : TimeoutIgnored(t)
    \/ \E t \in Tasks : Collect(t)

SpecAdapter == InitExec /\ [][NextAdapter]_vars

-----------------------------------------------------------------------------
(* Properties of execute_mcp_tool *)

Started(t) == tasks[t].pc # "idle"
Done(t) == tasks[t].pc = "done"
(* execute_mcp_tool returned an MCPToolResult (no exception left it) *)
ReturnedOutcome(t) == Done(t) /\ "status" \in DOMAIN tasks[t].outcome

(* C1: called with no session, execute_mcp_tool returns CONNECTION_ERROR with a
   non-empty error message, and at no point of the invocation is call_tool issued *)
C1_NoSessionConnectionError ==
    \A t \in Tasks :
        (Started(t) /\ tasks[t].inv.session = NoSession) =>
            /\ ReturnedOutcome(t)
            /\ tasks[t].outcome.status = CONNECTION_ERROR
            /\ IsStr(tasks[t].outcome.error_message)
            /\ Len(tasks[t].outcome.error_message.s) > 0
            /\ tasks[t].ncalls = 0
            /\ tasks[t].call = NoCall

C1_Witness ==
    \E t \in Tasks :
        /\ Done(t) /\ tasks[t].inv.session = NoSession
        /\ tasks[t].outcome.status = CONNECTION_ERROR

(* C2 as stated: a call that completed before its timeout without raising gives
   SUCCESS with the payload _process_mcp_result(raw), for every response shape *)
C2_Original ==
    \A t \in Tasks :
        (Done(t) /\ tasks[t].call.state = "returned" /\ tasks[t].timer # "fired") =>
            /\ ReturnedOutcome(t)
            /\ tasks[t].outcome.status = SUCCESS
            /\ tasks[t].outcome.result = ProcessMcpResult(tasks[t].call.value)

(* C3 as stated: a call still running when the timeout T elapsed ends with a
   TIMEOUT outcome whose message embeds T *)
C3_Original ==
    \A t \in Tasks :
        (Done(t) /\ tasks[t].timer = "fired") =>
            /\ ReturnedOutcome(t)
            /\ tasks[t].outcome.status = TIMEOUT
            /\ tasks[t].outcome.error_message =
                 PyStr("tool execution timed out (" \o ToString(tasks[t].inv.timeout_seconds) \o "s)")

(* C4: once execute_mcp_tool has returned TIMEOUT, the provider call of that
   invocation is no longer running *)
C4_TimeoutCallNotRunning ==
    \A t \in Tasks :
        (ReturnedOutcome(t) /\ tasks[t].outcome.status = TIMEOUT) =>
            tasks[t].call.state # "running"

C4_Witness ==
    \E t \in Tasks :
        /\ ReturnedOutcome(t) /\ tasks[t].outcome.status = TIMEOUT
        /\ tasks[t].timer = "fired" /\ tasks[t].call.state = "cancelled"

(* the exception classes execute_mcp_tool gives a clause of their own *)
SpecialKinds == {"TimeoutError", "MCPToolTimeoutError", "MCPToolConnectionError"}

(* C5: a generic exception raised by the provider call gives an ERROR outcome with
   a non-empty error message, and does not leave execute_mcp_tool *)
C5_GenericExceptionIsError ==
    \A t \in Tasks :
        (Done(t) /\ tasks[t].call.state = "raised"
                 /\ tasks[t].call.value.kind \notin SpecialKinds) =>
            /\ ReturnedOutcome(t)
            /\ tasks[t].outcome.status = ERROR
            /\ IsStr(tasks[t].outcome.error_message)
            /\ Len(tasks[t].outcome.error_message.s) > 0
            /\ tasks[t].outcome.result = None

C5_Witness ==
    \E t \in Tasks :
        /\ Done(t) /\ tasks[t].call.state = "raised"
        /\ tasks[t].call.value = Raise("ValueError", "boom")
        /\ tasks[t].outcome.status = ERROR
        /\ tasks[t].outcome.error_message = PyStr("Invalid value: boom")

-----------------------------------------------------------------------------
(* Properties of MCPToolWrapper._arun *)

ViaAdapter(t) == tasks[t].via = "adapter"

(* an outcome of the given status, as execute_mcp_tool or another caller may build it *)
OutcomeOf(adapter, status) ==
    [tool_name |-> adapter.name, server_name |-> adapter.server_name, status |-> status,
     result |-> IF status = SUCCESS THEN PyStr("payload") ELSE None,
     error_message |-> IF status = SUCCESS THEN None ELSE PyStr("details"),
     arguments |-> PyDict(<<>>)]

(* C6: _arun raises exactly when the outcome is CONNECTION_ERROR, and then raises
   MCPToolConnectionError; for SUCCESS it returns the payload, and for TIMEOUT,
   ERROR and VALIDATION_ERROR it returns a non-empty error text *)
C6_ArunRaisesOnlyOnConnectionError ==
    /\ \A t \in Tasks :
        (Done(t) /\ ViaAdapter(t)) =>
            LET o == tasks[t].outcome
                r == tasks[t].result IN
            /\ ReturnedOutcome(t)
            /\ IsRaise(r) <=> (o.status = CONNECTION_ERROR)
            /\ IsRaise(r) => r.kind = "MCPToolConnectionError"
            /\ (o.status = SUCCESS /\ IsStr(o.result)) => r = o.result
            /\ (o.status \in {TIMEOUT, ERROR, VALIDATION_ERROR}) =>
                    (IsStr(r) /\ Len(r.s) > 0)
    /\ \A adapter \in TestAdapters, status \in MCPToolResultStatus :
            LET r == ArunResult(adapter, OutcomeOf(adapter, status)) IN
            /\ IsRaise(r) <=> (status = CONNECTION_ERROR)
            /\ (status = SUCCESS) => r = PyStr("payload")
            /\ (status \in {TIMEOUT, ERROR, VALIDATION_ERROR}) => (IsStr(r) /\ Len(r.s) > 0)

C6_Witness ==
    \E t, u \in Tasks :
        /\ Done(t) /\ ViaAdapter(t) /\ tasks[t].outcome.status = CONNECTION_ERROR
        /\ IsRaise(tasks[t].result)
        /\ Done(u) /\ ViaAdapter(u) /\ tasks[u].outcome.status = TIMEOUT
        /\ IsStr(tasks[u].result)

(* C10 as stated: invoking the adapter built for operation op of provider p issues
   call_tool on p's session with the raw discovered name op, p's name, the caller's
   arguments and the timeout given to get_all_tools *)
C10_Original ==
    \A t \in Tasks :
        (ViaAdapter(t) /\ Started(t) /\ tasks[t].ncalls > 0) =>
            /\ tasks[t].call.name = tasks[t].adapter.mcp_tool.name
            /\ tasks[t].call.session = tasks[t].adapter.session
            /\ tasks[t].call.arguments = tasks[t].inv.arguments
            /\ tasks[t].inv.server_name = tasks[t].adapter.server_name
            /\ tasks[t].inv.timeout_seconds = tasks[t].adapter.timeout_seconds

-----------------------------------------------------------------------------
(* Properties of get_all_tools *)

Adapters == 1 .. Len(all_tools)
Entries == 1 .. Len(servers)

(* the number of operations of the connected providers of a registry *)
RECURSIVE ConnectedToolCount(_)
ConnectedToolCount(srv) ==
    IF srv = <<>> THEN 0
    ELSE (IF Head(srv).is_connected THEN Len(Head(srv).tools) ELSE 0)
         + ConnectedToolCount(Tail(srv))

(* C7: get_all_tools returns adapters only for providers whose connectivity flag is
   true, one per operation of each: with A connected exposing m operations and B
   disconnected exposing n, exactly m adapters, all attributed to A *)
C7_OnlyConnectedProviders ==
    listed =>
        /\ \A i \in Adapters :
              /\ Registered(servers, all_tools[i].server_name)
              /\ ServerInfo(servers, all_tools[i].server_name).is_connected
        /\ Len(all_tools) = ConnectedToolCount(servers)

C7_Witness ==
    /\ listed
    /\ \E a, b \in Entries :
          /\ servers[a].is_connected /\ Len(servers[a].tools) = 2
          /\ ~servers[b].is_connected /\ Len(servers[b].tools) = 1
          /\ Len(all_tools) = 2
          /\ \A i \in Adapters : all_tools[i].server_name = servers[a].name

(* C8 as stated: for any registry, the qualified names of the adapters of one
   get_all_tools() call are pairwise distinct *)
C8_Original ==
    listed => \A i, j \in Adapters : i # j => all_tools[i].name # all_tools[j].name

(* C9: two connected providers exposing an operation of the same raw name give two
   adapters, {providerA}_{op} and {providerB}_{op}, with distinct names; none is
   dropped *)
C9_SameOperationTwoProviders ==
    listed =>
        \A a, b \in Entries :
            (a # b /\ servers[a].is_connected /\ servers[b].is_connected) =>
                /\ Len(all_tools) = Len(servers[a].tools) + Len(servers[b].tools)
                /\ \A k \in 1 .. Len(servers[a].tools), l \in 1 .. Len(servers[b].tools) :
                      servers[a].tools[k].name = servers[b].tools[l].name =>
                          \E i, j \in Adapters :
                              /\ all_tools[i].name =
                                    servers[a].name \o "_" \o servers[a].tools[k].name
                              /\ all_tools[i].server_name = servers[a].name
                              /\ all_tools[j].name =
                                    servers[b].name \o "_" \o servers[b].tools[l].name
                              /\ all_tools[j].server_name = servers[b].name
                              /\ all_tools[i].name # all_tools[j].name

C9_Witness ==
    /\ listed
    /\ \E a, b \in Entries :
          /\ a # b /\ servers[a].is_connected /\ servers[b].is_connected
          /\ \E k \in 1 .. Len(servers[a].tools), l \in 1 .. Len(servers[b].tools) :
                servers[a].tools[k].name = "query" /\ servers[b].tools[l].name = "query"
    /\ \E i, j \in Adapters :
          all_tools[i].name = "grafana_query" /\ all_tools[j].name = "cloudwatch_query"

(* the operations get_all_tools is to offer, in registry and discovery order:
   those of the providers flagged connected *)
RECURSIVE OfferedOperations(_)
OfferedOperations(srv) ==
    IF srv = <<>> THEN <<>>
    ELSE (IF Head(srv).is_connected
          THEN [k \in 1 .. Len(Head(srv).tools) |->
                    [provider |-> Head(srv).name, op |-> Head(srv).tools[k]]]
          ELSE <<>>)
         \o OfferedOperations(Tail(srv))

(* the provider tag "[P] " of a provider name *)
ProviderTag(p) ==
    CASE p = "grafana" -> "[GRAFANA] "
      [] p = "cloudwatch" -> "[CLOUDWATCH] "

(* C11: every adapter returned by get_all_tools() for operation op of provider p is
   named exactly "{p}_{op}" and its description is the operation's description
   prefixed by the upper-cased provider tag "[P] " *)
C11_NameAndTaggedDescription ==
    listed =>
        LET ops == OfferedOperations(servers) IN
        /\ Len(all_tools) = Len(ops)
        /\ \A i \in Adapters :
              /\ all_tools[i].name = ops[i].provider \o "_" \o ops[i].op.name
              /\ all_tools[i].description =
                    ProviderTag(ops[i].provider) \o ops[i].op.description
              /\ all_tools[i].server_name = ops[i].provider

C11_Witness ==
    /\ listed
    /\ \E i, j \in Adapters :
          /\ all_tools[i].name = "grafana_get_logs"
          /\ all_tools[i].description = "[GRAFANA] Get logs"
          /\ all_tools[j].name = "cloudwatch_query"
          /\ all_tools[j].description = "[CLOUDWATCH] Query metrics"

-----------------------------------------------------------------------------
(* Properties of initialize_servers and of the registered sessions *)

(* the Grafana, the CloudWatch block of initialize_servers() has just been left *)
GrafanaBlockLeft == last_op.op # "start_grafana" /\ last_op'.op = "start_grafana"
CloudwatchBlockLeft == last_op.op # "start_cloudwatch" /\ last_op'.op = "start_cloudwatch"

(* C12: during initialize_servers(), a startup failure of one configured provider
   (spawn, handshake or discovery raising) is caught: the failed attempt registers
   nothing, the attempt and the registration of the other configured provider still
   take place, and initialize_servers() itself does not raise but runs to its end *)
C12_StartupFailureIsolated ==
    [][ /\ \A startup \in Startups :
              (grafana_config /\ ~startup.ok /\ StartGrafana(startup)) =>
                  /\ servers' = servers
                  /\ init_pc' = "cloudwatch"
        /\ \A startup \in Startups :
              (cloudwatch_config /\ ~startup.ok /\ StartCloudwatch(startup)) =>
                  /\ servers' = servers
                  /\ init_pc' = "idle" /\ initialized'
        /\ \A startup \in Startups :
              (startup.ok /\ StartGrafana(startup)) =>
                  /\ Registered(servers', "grafana")
                  /\ ServerInfo(servers', "grafana").tools = startup.tools
                  /\ init_pc' = "cloudwatch"
        /\ \A startup \in Startups :
              (startup.ok /\ StartCloudwatch(startup)) =>
                  /\ Registered(servers', "cloudwatch")
                  /\ ServerInfo(servers', "cloudwatch").tools = startup.tools
                  /\ init_pc' = "idle" /\ initialized'
        /\ GrafanaBlockLeft => init_pc' = "cloudwatch"
        /\ CloudwatchBlockLeft => (init_pc' = "idle" /\ initialized')
      ]_vars

(* Grafana configured and failed to start, CloudWatch started and is registered *)
C12_Witness ==
    /\ last_op.op = "start_cloudwatch"
    /\ grafana_config /\ cloudwatch_config
    /\ initialized /\ init_pc = "idle"
    /\ ~Registered(servers, "grafana")
    /\ Registered(servers, "cloudwatch")
    /\ Len(ServerInfo(servers, "cloudwatch").tools) = 2

(* C13: after initialize_servers() returns, is_initialized is true regardless of
   how many providers started, zero included (no config, or every startup failed) *)
C13_InitializedAfterInitialize ==
    last_op.op = "start_cloudwatch" => (initialized /\ init_pc = "idle")

(* zero providers: Grafana configured and failed, CloudWatch not configured *)
C13_Witness ==
    /\ last_op.op = "start_cloudwatch"
    /\ grafana_config /\ ~cloudwatch_config
    /\ servers = <<>>
    /\ initialized

(* C14 as stated: in every state where a provider registered by
   initialize_servers() is flagged connected, its session's transport has not been
   released *)
C14_Original ==
    \A i \in Entries :
        servers[i].is_connected => servers[i].session \in open_transports

-----------------------------------------------------------------------------
(* Properties of shutdown and get_server_status *)

Dropped == 1 .. Len(detached)

(* C15: from any registry state, entries already disconnected or without a session
   handle included, shutdown() completes, sets the connectivity flag of every
   previously registered session to false, leaves the registry empty and
   is_initialized false; afterwards connected_server_count is 0 and
   get_all_tools() returns an empty list *)
C15_ShutdownClearsEverything ==
    last_op.op = "shutdown" =>
        /\ \A i \in Dropped : ~detached[i].is_connected
        /\ servers = <<>>
        /\ ~initialized
        /\ ConnectedServerCount(servers) = 0
        /\ \A timeout_seconds \in Timeouts : GetAllToolsList(servers, timeout_seconds) = <<>>

(* shutdown() has run on a registry of two entries, one holding a session and one
   without a session handle *)
C15_Witness ==
    /\ last_op.op = "shutdown"
    /\ Len(detached) = 2
    /\ \E i, j \in Dropped :
          /\ detached[i].session # NoSession /\ Len(detached[i].tools) = 2
          /\ detached[j].session = NoSession
    /\ servers = <<>> /\ ~initialized

(* C16: shutdown() is idempotent: called on an empty registry, or a second time
   right after a first shutdown(), it leaves the manager state (empty registry,
   is_initialized false) unchanged *)
C16_ShutdownIdempotent ==
    [][ /\ (last_op'.op = "shutdown" /\ servers = <<>> /\ ~initialized) =>
              (servers' = <<>> /\ ~initialized')
        /\ (last_op.op = "shutdown" /\ last_op'.op = "shutdown") =>
              (servers' = servers /\ initialized' = initialized
                  /\ servers' = <<>> /\ ~initialized')
      ]_vars

(* a second shutdown() right after a first one *)
C16_Witness ==
    /\ last_op = [op |-> "shutdown", again |-> TRUE]
    /\ servers = <<>> /\ ~initialized
    /\ detached = <<>>

(* C17: get_server_status() is side-effect-free and idempotent: it leaves the
   registry, the connectivity flags, the operation lists and is_initialized
   unchanged, and two consecutive calls with no state change between them return
   identical output *)
C17_StatusHasNoEffect ==
    [][ last_op'.op = "get_server_status" =>
            /\ servers' = servers
            /\ initialized' = initialized
            /\ UNCHANGED <<properties, clock, grafana_config, cloudwatch_config, init_pc, detached,
                           open_transports, all_tools, listed, tasks>>
            /\ last_op.op = "get_server_status" => server_status' = server_status
      ]_vars

(* two consecutive get_server_status() calls on a registry of two entries *)
C17_Witness ==
    /\ last_op = [op |-> "get_server_status", again |-> TRUE]
    /\ server_status.returned
    /\ Len(servers) = 2
    /\ \E i \in Entries : servers[i].is_connected /\ Len(servers[i].tools) = 2

(* C18: get_server_status() returns exactly one entry per registered provider,
   connected or not, each carrying that provider's connectivity flag, an operation
   count equal to the length of its operation list, and its operation names in
   discovery order *)
C18_StatusPerProvider ==
    server_status.returned =>
        LET out == server_status.value IN
        /\ Len(out) = Len(servers)
        /\ \A i, j \in Entries : i # j => out[i].name # out[j].name
        /\ \A i \in Entries :
              /\ out[i].name = servers[i].name
              /\ out[i].is_connected = servers[i].is_connected
              /\ out[i].tool_count = Len(servers[i].tools)
              /\ Len(out[i].tools) = Len(servers[i].tools)
              /\ \A k \in 1 .. Len(servers[i].tools) :
                    out[i].tools[k] = servers[i].tools[k].name

(* a connected provider and a disconnected one with two operations, both reported *)
C18_Witness ==
    /\ server_status.returned
    /\ \E i, j \in Entries :
          /\ servers[i].is_connected
          /\ ~servers[j].is_connected
          /\ server_status.value[j].tool_count = 2
          /\ server_status.value[j].tools = <<"get_logs", "query">>
          /\ ~server_status.value[j].is_connected

-----------------------------------------------------------------------------
(* Properties of the calls issued on a session *)

(* the call of invocation t is in flight: issued and not yet ended *)
InFlight(t) == tasks[t].pc = "waiting" /\ tasks[t].call.state = "running"

(* C19 as stated: at any time at most one tool call is in flight on a given
   session, also when two adapters bound to the same session, or the same adapter
   twice, are invoked concurrently *)
C19_Original ==
    \A t1, t2 \in Tasks :
        (t1 # t2 /\ InFlight(t1) /\ InFlight(t2)) =>
            tasks[t1].call.session # tasks[t2].call.session

(* C20: no retries: one invocation of execute_mcp_tool issues at most one provider
   call, whatever its outcome (success, error or timeout) *)
C20_AtMostOneCall ==
    \A t \in Tasks :
        /\ tasks[t].ncalls <= 1
        /\ (Done(t) /\ ~SessionIsNone(tasks[t].inv.session)) => tasks[t].ncalls = 1
        /\ (Done(t) /\ SessionIsNone(tasks[t].inv.session)) => tasks[t].ncalls = 0

(* one invocation ended in error and another in timeout, each after one call *)
C20_Witness ==
    \E t1, t2 \in Tasks :
        /\ ReturnedOutcome(t1) /\ tasks[t1].outcome.status = ERROR
        /\ tasks[t1].call.state = "raised" /\ tasks[t1].ncalls = 1
        /\ ReturnedOutcome(t2) /\ tasks[t2].outcome.status = TIMEOUT
        /\ tasks[t2].ncalls = 1

-----------------------------------------------------------------------------
(* Properties of the argument sanitizer *)

(* the key contains, case-insensitively, one of the sensitive patterns *)
MatchesSensitivePattern(key) ==
    \E pattern \in {"api_key", "apikey", "password", "secret", "token", "credential"} :
        Contains(Lower(key), pattern)

(* the value is a string longer than the length limit of the log *)
IsLongValue(value) == IsStr(value) /\ Len(value.s) > 200

(* C21: for any argument map, the sanitizer replaces the value of every key that
   contains, case-insensitively, one of api_key, apikey, password, secret, token,
   credential with the fixed redaction marker, so the sanitized map never holds the
   original value of a sensitive key; the key set is preserved and non-sensitive
   entries with short values are unchanged *)
C21_SensitiveValuesRedacted ==
    \A t \in Tasks :
        Started(t) =>
            LET original == tasks[t].given.d
                sanitized == tasks[t].logged.d
            IN  /\ Len(sanitized) = Len(original)
                /\ \A i \in 1 .. Len(original) :
                      /\ sanitized[i][1] = original[i][1]
                      /\ MatchesSensitivePattern(original[i][1]) =>
                            /\ sanitized[i][2] = PyStr("***REDACTED***")
                            /\ sanitized[i][2] # original[i][2]
                      /\ (~MatchesSensitivePattern(original[i][1])
                             /\ ~IsLongValue(original[i][2])) =>
                            sanitized[i][2] = original[i][2]

(* a map with sensitive keys spelled in mixed case and inside longer names, one of
   them holding a long value, next to a non-sensitive key, has been sanitized *)
C21_Witness ==
    \E t \in Tasks :
        /\ Started(t)
        /\ tasks[t].given =
              PyDict(<< <<"user_credentials", PyInt(5)>>, <<"query", PyStr("up")>>,
                        <<"Secret", PyStr(LongValue)>> >>)
        /\ tasks[t].logged =
              PyDict(<< <<"user_credentials", PyStr("***REDACTED***")>>,
                        <<"query", PyStr("up")>>,
                        <<"Secret", PyStr("***REDACTED***")>> >>)

(* C22: the sanitizer never alters the arguments actually sent: execute_mcp_tool
   passes to call_tool, and echoes in the outcome, the caller's argument map
   unchanged, sensitive and long values included, and the sanitizer does not
   mutate the map it is given *)
C22_ArgumentsSentUnchanged ==
    \A t \in Tasks :
        Started(t) =>
            /\ tasks[t].inv.arguments = tasks[t].given
            /\ tasks[t].ncalls > 0 => tasks[t].call.arguments = tasks[t].given
            /\ ReturnedOutcome(t) => tasks[t].outcome.arguments = tasks[t].given

(* a call went out with a sensitive and a long value while the log holds the
   redacted and the shortened ones *)
C22_Witness ==
    \E t \in Tasks :
        /\ ReturnedOutcome(t) /\ tasks[t].outcome.status = SUCCESS
        /\ tasks[t].call.arguments =
              PyDict(<< <<"authToken", PyStr("t-9")>>, <<"data", PyStr(LongValue)>> >>)
        /\ tasks[t].outcome.arguments = tasks[t].call.arguments
        /\ tasks[t].logged.d[1][2] = PyStr("***REDACTED***")
        /\ tasks[t].logged.d[2][2] # PyStr(LongValue)
        /\ Len(tasks[t].logged.d[2][2].s) < Len(LongValue)

-----------------------------------------------------------------------------
(* Properties of the text an adapter hands to the agent *)

(* invocation t went through an adapter and failed: the adapter returned a
   message text *)
FailedWithText(t) ==
    /\ ViaAdapter(t) /\ ReturnedOutcome(t)
    /\ tasks[t].outcome.status # SUCCESS
    /\ IsStr(tasks[t].result)

(* C23 as stated: for every failed call the text the adapter returns is a fixed
   template that depends only on the failure class, the tool name and the provider
   name: two invocations that differ only in the raw exception message or in the
   argument values return the same text *)
C23_Original ==
    \A t1, t2 \in Tasks :
        (/\ FailedWithText(t1) /\ FailedWithText(t2)
         /\ tasks[t1].outcome.status = tasks[t2].outcome.status
         /\ tasks[t1].adapter.name = tasks[t2].adapter.name
         /\ tasks[t1].adapter.server_name = tasks[t2].adapter.server_name
         /\ tasks[t1].call.state = tasks[t2].call.state
         /\ (tasks[t1].call.state = "raised" =>
                tasks[t1].call.value.kind = tasks[t2].call.value.kind)) =>
            tasks[t1].result = tasks[t2].result

-----------------------------------------------------------------------------
(* Properties of the result normalizer *)

(* the provider answered invocation t, and _process_mcp_result has run on the
   answer *)
Normalized(t) == Done(t) /\ tasks[t].call.state = "returned"

(* the text of one element of a content list: its text field, the element itself
   if it is a string, its 'text' entry if it is a dict with that key, its
   stringification otherwise *)
ElementText(element) ==
    IF HasText(element) THEN PyStrOf(element.text)
    ELSE IF IsStr(element) THEN element.s
    ELSE IF HasKey(element, "text") THEN PyStrOf(GetKey(element, "text"))
    ELSE PyStrOf(element)

(* the texts of the elements of a content list, in list order, joined by newlines *)
JoinedTexts(content) ==
    PyStr(JoinStrs("\n", [i \in 1 .. Len(content.items) |-> ElementText(content.items[i])]))

(* the value of the first of the keys text, result, data present in a dict, coerced
   to a string *)
FirstKeyText(response) ==
    IF HasKey(response, "text") THEN PyStr(PyStrOf(GetKey(response, "text")))
    ELSE IF HasKey(response, "result") THEN PyStr(PyStrOf(GetKey(response, "result")))
    ELSE PyStr(PyStrOf(GetKey(response, "data")))

HasTextResultOrData(response) ==
    HasKey(response, "text") \/ HasKey(response, "result") \/ HasKey(response, "data")

(* the reference conversion: None or empty, plain string, object with a content
   field, dict with text / result / data, fallback stringification, in this order *)
ReferenceConversion(response) ==
    IF response = None \/ response = PyStr("") THEN PyStr("")
    ELSE IF IsStr(response) THEN response
    ELSE IF HasContent(response) THEN
        (IF response.content.t = "list" THEN JoinedTexts(response.content)
         ELSE IF HasText(response.content) THEN response.content.text
         ELSE IF IsStr(response.content) THEN response.content
         ELSE IF HasKey(response.content, "text") THEN GetKey(response.content, "text")
         ELSE PyStr(PyStrOf(response.content)))
    ELSE IF response.t = "dict" /\ HasTextResultOrData(response) THEN FirstKeyText(response)
    ELSE PyStr(PyStrOf(response))

(* C24 as stated: for every input shape the output of _process_mcp_result equals
   the output of the reference conversion that applies the branches in the order
   None/empty, plain string, object with a content field, dict with
   text/result/data, fallback stringification *)
C24_Original ==
    \A t \in Tasks :
        Normalized(t) => tasks[t].result_text = ReferenceConversion(tasks[t].call.value)

(* C25 as stated: for a response whose content field is a list, the normalizer
   returns the texts of all elements, in list order, joined by newlines; no
   element is dropped *)
C25_Original ==
    \A t \in Tasks :
        (/\ Normalized(t)
         /\ HasContent(tasks[t].call.value)
         /\ tasks[t].call.value.content.t = "list") =>
            tasks[t].result_text = JoinedTexts(tasks[t].call.value.content)

(* C26 as stated: for a dict response the normalizer returns the value of the first
   of the keys text, result, data that is present, coerced to a string; the
   returned value is always a string *)
C26_Original ==
    \A t \in Tasks :
        (/\ Normalized(t)
         /\ tasks[t].call.value.t = "dict"
         /\ HasTextResultOrData(tasks[t].call.value)) =>
            /\ IsStr(tasks[t].result_text)
            /\ tasks[t].result_text = FirstKeyText(tasks[t].call.value)

(* C27: execute_mcp_tool never produces an outcome with status VALIDATION_ERROR:
   whatever the session, the argument map and the provider do, the status of its
   outcome is one of SUCCESS, ERROR, TIMEOUT, CONNECTION_ERROR *)
C27_NeverValidationError ==
    \A t \in Tasks :
        ReturnedOutcome(t) =>
            tasks[t].outcome.status \in {SUCCESS, ERROR, TIMEOUT, CONNECTION_ERROR}

(* a call that failed with ValueError, and one answered with a value the
   normalizer cannot handle (TypeError), both reported as ERROR *)
C27_Witness ==
    \E t, u \in Tasks :
        /\ ReturnedOutcome(t) /\ ReturnedOutcome(u)
        /\ tasks[t].call.state = "raised" /\ tasks[t].call.value.kind = "ValueError"
        /\ tasks[t].outcome.status = ERROR
        /\ tasks[u].call.state = "returned" /\ IsRaise(tasks[u].result_text)
        /\ tasks[u].outcome.status = ERROR

(* C28 as stated: even when the provider call keeps running after the cancel
   request, execute_mcp_tool returns a TIMEOUT outcome once the timeout has
   elapsed: from the expiry on, the caller is not waiting any more and holds a
   TIMEOUT outcome *)
C28_Original ==
    \A t \in Tasks :
        tasks[t].timer = "fired" =>
            /\ tasks[t].pc # "waiting"
            /\ ReturnedOutcome(t)
            /\ tasks[t].outcome.status = TIMEOUT

(* C29: provider startup in initialize_servers() is sequential: the CloudWatch
   startup begins only after the Grafana startup has ended, registered or
   failed, and the two startups never overlap *)
C29_StartupsSequential ==
    /\ Cardinality(open_transports) <= 1
    /\ "session_cloudwatch" \in open_transports => init_pc = "cloudwatch_session"
    /\ init_pc \in {"cloudwatch", "cloudwatch_session"} =>
        /\ "session_grafana" \notin open_transports
        /\ init_run.grafana.attempt \in {"skipped", "failed", "started"}
        /\ (init_run.clean /\ init_run.grafana.attempt = "started") =>
                Registered(servers, "grafana")

(* the CloudWatch session is being set up, with Grafana started and registered *)
C29_Witness ==
    /\ init_pc = "cloudwatch_session"
    /\ open_transports = {"session_cloudwatch"}
    /\ init_run.grafana.attempt = "started"
    /\ Registered(servers, "grafana")

Configured(name) == IF name = "grafana" THEN grafana_config ELSE cloudwatch_config

(* initialize_servers() has just completed a run it began on an empty registry *)
InitializeCompleted == last_op.op = "start_cloudwatch" /\ init_run.clean

(* C30: after initialize_servers() completes from an empty registry, the registry
   holds exactly the configured providers whose startup succeeded, each with
   connectivity flag true and its discovered operation list; a provider without a
   config is never registered; each entry is determined by its own provider's
   startup alone, whatever the order of the startups *)
C30_RegistryAfterInitialize ==
    InitializeCompleted =>
        /\ \A n \in ProviderNames :
            /\ Registered(servers, n) <=>
                    (Configured(n) /\ init_run[n].attempt = "started")
            /\ Registered(servers, n) =>
                    ServerInfo(servers, n) =
                        MCPServerInfo(n, SessionOf(n), init_run[n].tools, TRUE)
            /\ ~Configured(n) => ~Registered(servers, n)
        /\ Len(servers) = Cardinality({n \in ProviderNames : Registered(servers, n)})

(* a completed run in which Grafana failed and CloudWatch started with operations:
   CloudWatch alone is registered *)
C30_Witness ==
    /\ InitializeCompleted
    /\ init_run.grafana.attempt = "failed"
    /\ init_run.cloudwatch.attempt = "started"
    /\ Len(init_run.cloudwatch.tools) > 0
    /\ Len(servers) = 1

-----------------------------------------------------------------------------
(* Properties of concurrent calls *)

(* invocation u has issued a call, and the call of invocation t, before and
   after the step, is not on the session of u's call *)
OnAnotherSession(t, u) ==
    /\ t # u
    /\ tasks[u].call.state # "none"
    /\ tasks[t].call.session # tasks[u].call.session
    /\ tasks'[t].call.session # tasks[u].call.session

(* C31: concurrent tool calls on different provider sessions are independent: no
   step of a call on one session (its start, its answer, its exception, its
   timeout) changes anything of a call on another session, its outcome status
   and payload included, under every interleaving *)
C31_SessionsIndependent ==
    [][\A t, u \in Tasks :
        (OnAnotherSession(t, u) /\ tasks'[t] # tasks[t]) => tasks'[u] = tasks[u]]_vars

(* a call on one session timed out, and a call on another session, answered,
   ended in SUCCESS with its own answer as payload *)
C31_Witness ==
    \E t, u \in Tasks :
        /\ ReturnedOutcome(t) /\ ReturnedOutcome(u)
        /\ tasks[t].call.session = "session_grafana"
        /\ tasks[u].call.session = "session_cloudwatch"
        /\ tasks[t].outcome.status = TIMEOUT
        /\ tasks[u].call.state = "returned"
        /\ tasks[u].outcome.status = SUCCESS
        /\ tasks[u].outcome.result = ProcessMcpResult(tasks[u].call.value)

-----------------------------------------------------------------------------
(* Properties of get_all_tools under wrapping failures *)

(* the offered operations whose wrapping does not fail, in registry and
   discovery order *)
WrappableOperations(srv) == SelectSeq(OfferedOperations(srv), LAMBDA o : ~WrapRaises(o.op))

(* C32: in get_all_tools(), a failure while wrapping one operation skips only that
   operation: every other operation of the same provider and of the other
   connected providers is in the returned list, and get_all_tools() returns *)
C32_WrapFailureSkipsOne ==
    listed =>
        LET ops == WrappableOperations(servers) IN
        /\ Len(all_tools) = Len(ops)
        /\ \A k \in 1 .. Len(ops) :
            /\ all_tools[k].server_name = ops[k].provider
            /\ all_tools[k].mcp_tool.name = ops[k].op.name
            /\ all_tools[k].name = QualifiedName(ops[k].provider, ops[k].op.name)

(* one provider lists a failing operation before a good one, the other a failing
   one alone: the listing holds the good operation only *)
C32_Witness ==
    /\ listed
    /\ \E a, b \in Entries :
        /\ a # b
        /\ Len(servers[a].tools) = 2
        /\ WrapRaises(servers[a].tools[1]) /\ ~WrapRaises(servers[a].tools[2])
        /\ Len(servers[b].tools) = 1 /\ WrapRaises(servers[b].tools[1])
        /\ Len(all_tools) = 1
        /\ all_tools[1].server_name = servers[a].name

-----------------------------------------------------------------------------
(* Properties of the outcome record *)

(* C33 as stated: every outcome returned by execute_mcp_tool is well-formed:
   status is SUCCESS exactly when the result payload is set and the error message
   is unset, every non-SUCCESS outcome has a non-empty error message and no
   payload, and every outcome echoes the caller's arguments, tool name and
   provider name with a non-negative execution time *)
C33_Original ==
    \A t \in Tasks :
        ReturnedOutcome(t) =>
            LET outcome == tasks[t].outcome IN
            /\ outcome.status = SUCCESS <=>
                    (outcome.result # None /\ outcome.error_message = None)
            /\ outcome.status # SUCCESS =>
                    /\ outcome.result = None
                    /\ IsStr(outcome.error_message)
                    /\ outcome.error_message.s # ""
            /\ outcome.arguments = tasks[t].given
            /\ outcome.tool_name = tasks[t].inv.tool_name
            /\ outcome.server_name = tasks[t].inv.server_name
            /\ outcome.execution_time_ms >= 0

-----------------------------------------------------------------------------
(* Properties of empty responses *)

(* a response with nothing in it: None, the empty string, an empty dict, an empty
   list, or an object whose content field is an empty list *)
IsEmptyResponse(response) ==
    \/ response = None
    \/ response = PyStr("")
    \/ response = PyDict(<<>>)
    \/ response = PyList(<<>>)
    \/ response = ContentObj(PyList(<<>>))

(* C34 as stated: _process_mcp_result returns the empty string for every empty
   response, not only None: an empty string, an empty dict, an empty list, and an
   object whose content field is an empty list all map to "" *)
C34_Original ==
    \A t \in Tasks :
        (Normalized(t) /\ IsEmptyResponse(tasks[t].call.value)) =>
            tasks[t].result_text = PyStr("")

-----------------------------------------------------------------------------
(* Properties of the truncation of logged values *)

(* the first 100 characters of a text, followed by the annotation of its length *)
Truncated(text) == SubSeq(text, 1, 100) \o "...(" \o ToString(Len(text)) \o " chars)"

(* C35: the sanitizer truncates a string value of a non-sensitive key exactly when
   its length exceeds 200 characters, to its first 100 characters followed by an
   annotation giving the original character count; string values of length 200
   or less and non-string values pass through unchanged *)
C35_LongValuesTruncated ==
    \A t \in Tasks :
        Started(t) =>
            LET original == tasks[t].given.d
                sanitized == tasks[t].logged.d
            IN  \A i \in 1 .. Len(original) :
                    ~MatchesSensitivePattern(original[i][1]) =>
                        IF IsStr(original[i][2]) /\ Len(original[i][2].s) > 200
                        THEN sanitized[i][2] = PyStr(Truncated(original[i][2].s))
                        ELSE sanitized[i][2] = original[i][2]

(* a value of 201 characters was cut to 100 characters and the annotation, and a
   value of exactly 200 characters was logged whole *)
C35_Witness ==
    \E t, u \in Tasks :
        /\ Started(t) /\ Started(u)
        /\ \E i \in 1 .. Len(tasks[t].given.d) :
            /\ tasks[t].given.d[i] = <<"data", PyStr(LongValue)>>
            /\ Len(tasks[t].logged.d[i][2].s) = 100 + Len("...(201 chars)")
        /\ \E i \in 1 .. Len(tasks[u].given.d) :
            /\ tasks[u].given.d[i] = <<"note", PyStr(LimitValue)>>
            /\ tasks[u].logged.d[i][2] = PyStr(LimitValue)
            /\ Len(LimitValue) = 200

-----------------------------------------------------------------------------
(* Properties of the TIMEOUT status *)

(* C36 as stated: execute_mcp_tool returns status TIMEOUT only if the timeout
   budget elapsed before the underlying call completed: a call that fails before
   the budget elapses by raising an exception, a timeout-type exception raised by
   the provider client included, is never reported as TIMEOUT *)
C36_Original ==
    \A t \in Tasks :
        (ReturnedOutcome(t) /\ tasks[t].outcome.status = TIMEOUT) =>
            tasks[t].timer = "fired"

-----------------------------------------------------------------------------
(* Properties of the adapters after shutdown *)

(* the sessions of the entries the latest shutdown() dropped *)
DetachedSessions == { detached[i].session : i \in 1 .. Len(detached) } \ {NoSession}

(* invocation t issues its provider call in this step *)
IssuesCall(t) == tasks[t].call.state # "running" /\ tasks'[t].call.state = "running"

(* C37 as stated: after shutdown() has completed, no provider call is issued on
   any session that was registered before the shutdown, also not through an
   adapter obtained from get_all_tools() before the shutdown and invoked after it *)
C37_Original ==
    [][\A t \in Tasks :
        (last_op.op = "shutdown" /\ IssuesCall(t)) =>
            tasks'[t].call.session \notin DetachedSessions]_vars

-----------------------------------------------------------------------------
(* Properties of is_initialized and connected_server_count *)

(* the step is a shutdown(), the completion of an initialize_servers(), a read of
   the two properties *)
ShutdownStep == last_op' # last_op /\ last_op'.op = "shutdown"
CompletionStep == last_op' # last_op /\ last_op'.op = "start_cloudwatch"
ReadStep == last_op'.op = "read_properties" /\ properties' # NoProperties

(* C38: after any sequence of initialize_servers() and shutdown() calls,
   is_initialized is true exactly when an initialize_servers() has completed since
   the last shutdown() (false initially: it becomes true at each completion, false
   at each shutdown, and nothing else changes it); connected_server_count equals
   the number of registry entries whose connectivity flag is true; reading either
   property changes no state *)
C38_PropertiesArePureQueries ==
    [][ /\ ShutdownStep => ~initialized'
        /\ CompletionStep => initialized'
        /\ ~(ShutdownStep \/ CompletionStep) => initialized' = initialized
        /\ (ReadStep /\ last_op' # last_op) =>
            /\ properties'.is_initialized = initialized
            /\ properties'.connected_server_count =
                    Cardinality({i \in 1 .. Len(servers) : servers[i].is_connected})
            /\ UNCHANGED <<servers, initialized, grafana_config, cloudwatch_config, init_pc,
                           all_tools, listed, tasks, open_transports, detached,
                           server_status, init_run, clock>>
      ]_vars

(* the properties read on an initialized manager with one connected and one
   disconnected entry *)
C38_Witness ==
    /\ last_op.op = "read_properties"
    /\ Len(servers) = 2
    /\ properties = [returned |-> TRUE, is_initialized |-> TRUE, connected_server_count |-> 1]

-----------------------------------------------------------------------------
(* Properties of a repeated initialization *)

(* C39 as stated: when initialize_servers() is run again without an intervening
   shutdown(), the registry afterwards reflects only the most recent run: it holds
   exactly the providers started in that run, and a provider whose startup failed
   in it is absent even if an earlier run had registered it *)
C39_Original ==
    (last_op.op = "start_cloudwatch" /\ init_run.whole) =>
        \A n \in ProviderNames :
            /\ init_run[n].attempt = "failed" => ~Registered(servers, n)
            /\ Registered(servers, n) =>
                /\ init_run[n].attempt = "started"
                /\ ServerInfo(servers, n).tools = init_run[n].tools

====
